---- MODULE Spec2Model ----
(***************************************************************************)
(* The mail log scanner of management/mail_log.py: scan_mail_log creates a *)
(* collector, scan_files walks LOG_FILES (newest first), each file is read *)
(* backwards, every line goes through scan_mail_log_line, which classifies *)
(* it, compares its date with the window START_DATE >= date >= END_DATE    *)
(* and routes it to one of the five service parsers.                       *)
(*                                                                         *)
(* A date-time is an integer: year * YearLen + time-in-year, in hours.     *)
(* A raw line is a record: m says whether the base pattern of line 318     *)
(* matches; ts is the year-less timestamp; service the service tag; log    *)
(* the message body, a record naming the detail pattern it has the form of *)
(* and the groups that pattern captures.                                   *)
(*                                                                         *)
(* The content of the log files is input: a file's existence, its lines    *)
(* and its end are chosen when the scan gets there.  When the files are    *)
(* scanned a second time (keep), what the first scan read of them is kept  *)
(* in `files` and the second scan reads the same; otherwise a line that    *)
(* was read is never read again and is not kept.  The order of the keys in *)
(* the OrderedDicts and scan_time are left out: no parser reads them.      *)
(*                                                                         *)
(* reverse_readline, which turns a file into those lines, is modelled on   *)
(* its own (SpecReader): the file is a text in UTF-8, read backwards in    *)
(* blocks of buf_size; `reader` holds its locals and what it has yielded.  *)
(* tmp_file is the decompressed copy scan_files makes of a .gz path.       *)
(***************************************************************************)
EXTENDS Integers, Sequences, FiniteSets, TLC

\* ---------------------------------------------------------------- bounds

\* Lines the reader delivers during one scan, over all files together.
MaxLines == 4

\* The first paths of LOG_FILES, newest first: the program lists four more
\* compressed rotations after these.
LOG_FILES ==
    <<[name |-> "/var/log/mail.log", gz |-> FALSE],
      [name |-> "/var/log/mail.log.1", gz |-> FALSE],
      [name |-> "/var/log/mail.log.2.gz", gz |-> TRUE]>>

NumFiles == Len(LOG_FILES)

\* Characters in a file given to reverse_readline.
MaxLen == 5

\* The largest buf_size reverse_readline is called with.
MaxBuf == 4

\* ------------------------------------------------------------- constants

HoursPerDay == 24

\* A model year is two days long.
YearLen == 2 * HoursPerDay

\* The year strptime gives a timestamp that has none.
DefaultYear == 1900

\* The year of the run.
RunYear == 2016

\* Python's None, where a date is expected.
None == -1

\* ----------------------------------------------------------------- state

VARIABLES
    START_DATE,     \* the window: START_DATE >= END_DATE
    END_DATE,
    SCAN_OUT,       \* the enabled report categories
    SCAN_IN,
    SCAN_CONN,
    SCAN_GREY,
    SCAN_BLOCKED,
    FILTERS,        \* [none |-> TRUE] or [none |-> FALSE, list |-> set of strings]
    alphabet,       \* the lines the log writers of this host can have written
    keep,           \* whether the files are read again by a second scan
    files,          \* per path, what is known of the file on disk
    collector,      \* scan_mail_log's collector
    pc,             \* position in scan_mail_log / scan_files
    fi,             \* index in LOG_FILES of the path the for loop is at
    pos,            \* lines the reader has delivered from the current file
    stop_scan,      \* scan_files' local
    tmp_file,       \* scan_files' local: the decompressed copy of a .gz file
    line,           \* the line the reader delivered last (the loop variable)
    reads,          \* lines the reader has delivered during this scan
    prev,           \* history: Kind of the line delivered before `line`
    seen,           \* history: the Kinds of the lines delivered during this scan
    run,            \* which scan of the same files this is (1 or 2)
    first,          \* history: how the first scan ended
    reader          \* reverse_readline's locals and what it has yielded

config == <<START_DATE, END_DATE, SCAN_OUT, SCAN_IN, SCAN_CONN, SCAN_GREY,
            SCAN_BLOCKED, FILTERS, alphabet, keep>>

vars == <<START_DATE, END_DATE, SCAN_OUT, SCAN_IN, SCAN_CONN, SCAN_GREY,
          SCAN_BLOCKED, FILTERS, alphabet, keep, files, collector, pc, fi,
          pos, stop_scan, tmp_file, line, reads, prev, seen, run, first, reader>>

\* ------------------------------------------------------------ date-times

Date(year, t) == year * YearLen + t

Year(d) == d \div YearLen

Hour(d) == (d % YearLen) % HoursPerDay

\* datetime.strptime(date, '%b %d %H:%M:%S'): no year in the text.
strptime(ts) == Date(DefaultYear, ts)

\* A year has YearLen hours, and a leap year one day more, put at its end:
\* a timestamp from YearLen on lies in the leap day.  strptime reads the
\* text in DefaultYear, which is no leap year, and raises ValueError for it.
ValueError(ts) == ts >= YearLen

\* date.replace(year)
ReplaceYear(d, year) == Date(year, d % YearLen)

\* ------------------------------------------------------------- strings

\* An address or a filter is a sequence of characters.
IsSubstring(f, s) ==
    \E i \in 0..(Len(s) - Len(f)) :
        \A k \in 1..Len(f) : s[i + k] = f[k]

\* A user_match that lets every address through.
MatchAll(user) == TRUE

user_match(user) ==
    FILTERS.none \/ \E u \in FILTERS.list : IsSubstring(u, user)

\* d[key] += 1 on a defaultdict(int)
Bump(d, key) ==
    [k \in DOMAIN d \cup {key} |->
        (IF k \in DOMAIN d THEN d[k] ELSE 0) + (IF k = key THEN 1 ELSE 0)]

\* dict[key] = value
Put(d, key, value) ==
    [k \in DOMAIN d \cup {key} |-> IF k = key THEN value ELSE d[k]]

\* dict.get(key, default)
Get(d, key, default) == IF key \in DOMAIN d THEN d[key] ELSE default

EmptyDict == [k \in {} |-> 0]

\* ---------------------------------------------------------- the parsers

NewSent == [sent_count |-> 0, hosts |-> {}, earliest |-> None, latest |-> None,
            activity_by_hour |-> EmptyDict]

scan_postfix_submission_line(date, log, c) ==
    IF log.form = "client" /\ log.sasl_method \in {"PLAIN", "LOGIN"}
       /\ user_match(log.user)
    THEN LET data == Get(c.sent_mail, log.user, NewSent)
             upd  == [data EXCEPT
                        !.sent_count = @ + 1,
                        !.hosts = @ \cup {log.client},
                        !.activity_by_hour = Bump(@, Hour(date)),
                        !.latest = IF @ = None THEN date ELSE @,
                        !.earliest = date]
         IN [c EXCEPT !.sent_mail = Put(@, log.user, upd)]
    ELSE c

NewReceived == [received_count |-> 0, earliest |-> None, latest |-> None,
                activity_by_hour |-> EmptyDict]

scan_postfix_lmtp_line(date, log, c) ==
    IF log.form = "to" /\ log.status = "Saved" /\ user_match(log.user)
    THEN LET data == Get(c.received_mail, log.user, NewReceived)
             upd  == [data EXCEPT
                        !.received_count = @ + 1,
                        !.activity_by_hour = Bump(@, Hour(date)),
                        !.latest = IF @ = None THEN date ELSE @,
                        !.earliest = date]
         IN [c EXCEPT !.received_mail = Put(@, log.user, upd)]
    ELSE c

NewLogin == [imap |-> 0, pop3 |-> 0, earliest |-> None, latest |-> None,
             imap_logins |-> EmptyDict, pop3_logins |-> EmptyDict,
             activity_by_hour |-> [imap |-> EmptyDict, pop3 |-> EmptyDict]]

\* scan_dovecot_line putting every login in the imap histogram.
OneHistogram(date, log, c, prot) ==
    IF log.form = "Login" /\ log.method = "PLAIN" /\ user_match(log.user)
    THEN LET data == Get(c.dovecot, log.user, NewLogin)
             upd  == IF prot = "imap"
                     THEN [data EXCEPT
                             !.imap = @ + 1,
                             !.activity_by_hour.imap = Bump(@, Hour(date)),
                             !.latest = IF @ = None THEN date ELSE @,
                             !.earliest = date,
                             !.imap_logins = Bump(@, log.rip)]
                     ELSE [data EXCEPT
                             !.pop3 = @ + 1,
                             !.activity_by_hour.imap = Bump(@, Hour(date)),
                             !.latest = IF @ = None THEN date ELSE @,
                             !.earliest = date,
                             !.pop3_logins = Bump(@, log.rip)]
         IN [c EXCEPT !.dovecot = Put(@, log.user, upd)]
    ELSE c

scan_dovecot_line(date, log, c, prot) ==
    IF log.form = "Login" /\ log.method = "PLAIN" /\ user_match(log.user)
    THEN LET data == Get(c.dovecot, log.user, NewLogin)
             upd  == IF prot = "imap"
                     THEN [data EXCEPT
                             !.imap = @ + 1,
                             !.activity_by_hour.imap = Bump(@, Hour(date)),
                             !.latest = IF @ = None THEN date ELSE @,
                             !.earliest = date,
                             !.imap_logins = Bump(@, log.rip)]
                     ELSE [data EXCEPT
                             !.pop3 = @ + 1,
                             !.activity_by_hour.pop3 = Bump(@, Hour(date)),
                             !.latest = IF @ = None THEN date ELSE @,
                             !.earliest = date,
                             !.pop3_logins = Bump(@, log.rip)]
         IN [c EXCEPT !.dovecot = Put(@, log.user, upd)]
    ELSE c

\* scan_postgrey_line with a pass event starting a new record.
PassForgetsGreylist(date, log, c) ==
    IF log.form = "action" /\ log.action \in {"greylist", "pass"}
       /\ user_match(log.recipient)
    THEN LET user == log.recipient
             key  == <<IF log.client_name = "unknown" THEN log.client_address
                       ELSE log.client_name, log.sender>>
             rep  == Get(c.postgrey, user, [k \in {} |-> <<None, None>>])
             rep2 == IF log.action = "greylist" /\ log.reason = "new"
                     THEN Put(rep, key,
                              <<date, IF key \in DOMAIN rep THEN rep[key][2] ELSE None>>)
                     ELSE IF log.action = "pass"
                     THEN Put(rep, key, <<None, date>>)
                     ELSE rep
         IN [c EXCEPT !.postgrey = Put(@, user, rep2)]
    ELSE c

\* scan_postgrey_line filling the first greylist date only when it is absent.
FillIfAbsent(date, log, c) ==
    IF log.form = "action" /\ log.action \in {"greylist", "pass"}
       /\ user_match(log.recipient)
    THEN LET user == log.recipient
             key  == <<IF log.client_name = "unknown" THEN log.client_address
                       ELSE log.client_name, log.sender>>
             rep  == Get(c.postgrey, user, [k \in {} |-> <<None, None>>])
             rep2 == IF log.action = "greylist" /\ log.reason = "new"
                     THEN IF key \in DOMAIN rep /\ rep[key][1] # None
                          THEN rep
                          ELSE Put(rep, key,
                                   <<date, IF key \in DOMAIN rep THEN rep[key][2] ELSE None>>)
                     ELSE IF log.action = "pass"
                     THEN Put(rep, key,
                              <<IF key \in DOMAIN rep THEN rep[key][1] ELSE None, date>>)
                     ELSE rep
         IN [c EXCEPT !.postgrey = Put(@, user, rep2)]
    ELSE c

\* A greylist record is the pair <<first greylist date, pass date>>.
\* A greylist parser that keeps one key per recipient.
OneKeyPerRecipient(date, log, c) ==
    IF log.form = "action" /\ log.action \in {"greylist", "pass"}
       /\ user_match(log.recipient)
    THEN LET user == log.recipient
             key  == <<IF log.client_name = "unknown" THEN log.client_address
                       ELSE log.client_name, log.sender>>
             rep  == Get(c.postgrey, user, [k \in {} |-> <<None, None>>])
             none == [k \in {} |-> <<None, None>>]
             rep2 == IF log.action = "greylist" /\ log.reason = "new"
                     THEN Put(none, key,
                              <<date, IF key \in DOMAIN rep THEN rep[key][2] ELSE None>>)
                     ELSE IF log.action = "pass"
                     THEN Put(none, key,
                              <<IF key \in DOMAIN rep THEN rep[key][1] ELSE None, date>>)
                     ELSE rep
         IN [c EXCEPT !.postgrey = Put(@, user, rep2)]
    ELSE c

scan_postgrey_line(date, log, c) ==
    IF log.form = "action" /\ log.action \in {"greylist", "pass"}
       /\ user_match(log.recipient)
    THEN LET user == log.recipient
             key  == <<IF log.client_name = "unknown" THEN log.client_address
                       ELSE log.client_name, log.sender>>
             rep  == Get(c.postgrey, user, [k \in {} |-> <<None, None>>])
             rep2 == IF log.action = "greylist" /\ log.reason = "new"
                     THEN Put(rep, key,
                              <<date, IF key \in DOMAIN rep THEN rep[key][2] ELSE None>>)
                     ELSE IF log.action = "pass"
                     THEN Put(rep, key,
                              <<IF key \in DOMAIN rep THEN rep[key][1] ELSE None, date>>)
                     ELSE rep
         IN [c EXCEPT !.postgrey = Put(@, user, rep2)]
    ELSE c

NewRejected == [blocked |-> << >>, earliest |-> None, latest |-> None]

\* A reject message is a sequence of pieces of text.  Three pieces are what
\* the patterns of lines 415, 431 and 438 look for; each of the last two
\* ends with the "; " after which the pattern captures the rest.
Greylisted == "Recipient address rejected: Greylisted"

Zen == "Client host [10.0.0.1] blocked using zen.spamhaus.org; "

Dbl == "Sender address [s@y] blocked using dbl.spamhaus.org; "

\* re.search: where the piece stands first in the message, 0 if nowhere.
Find(message, piece) ==
    IF \E i \in 1..Len(message) : message[i] = piece
    THEN CHOOSE i \in 1..Len(message) :
            message[i] = piece /\ \A j \in 1..(i - 1) : message[j] # piece
    ELSE 0

\* The two rewrites that blame the sender's domain for either list.
BlameDomain(message) ==
    LET z == Find(message, Zen)
        d == Find(message, Dbl)
    IN  IF z > 0 THEN <<"domain blocked: ">> \o SubSeq(message, z + 1, Len(message))
        ELSE IF d > 0 THEN <<"domain blocked: ">> \o SubSeq(message, d + 1, Len(message))
        ELSE message

\* The reason as stored: the two re.search rewrites of lines 430-441.
Simplify(message) ==
    LET z == Find(message, Zen)
        d == Find(message, Dbl)
    IN  IF z > 0 THEN <<"ip blocked: ">> \o SubSeq(message, z + 1, Len(message))
        ELSE IF d > 0 THEN <<"domain blocked: ">> \o SubSeq(message, d + 1, Len(message))
        ELSE message

\* A reject parser that does not ask whether the recipient is known.
AnyRecipient(date, log, c) ==
    IF log.form = "NOQUEUE" /\ Find(log.message, Greylisted) = 0
       /\ user_match(log.user)
    THEN LET data == Get(c.rejected, log.user, NewRejected)
             upd  == [data EXCEPT
                        !.latest = IF @ = None THEN date ELSE @,
                        !.earliest = date,
                        !.blocked = Append(@, <<date, log.sender, Simplify(log.message)>>)]
         IN [c EXCEPT !.rejected = Put(@, log.user, upd)]
    ELSE c

\* A reject parser that reports greylisting rejections like any other.
GreylistingReported(date, log, c) ==
    IF log.form = "NOQUEUE"
       /\ user_match(log.user)
       /\ (c.known_addresses.none \/ log.user \in c.known_addresses.set)
    THEN LET data == Get(c.rejected, log.user, NewRejected)
             upd  == [data EXCEPT
                        !.latest = IF @ = None THEN date ELSE @,
                        !.earliest = date,
                        !.blocked = Append(@, <<date, log.sender, Simplify(log.message)>>)]
         IN [c EXCEPT !.rejected = Put(@, log.user, upd)]
    ELSE c

\* A reject parser that moves latest with every observation.
LatestFollows(date, log, c) ==
    IF log.form = "NOQUEUE" /\ Find(log.message, Greylisted) = 0
       /\ user_match(log.user)
       /\ (c.known_addresses.none \/ log.user \in c.known_addresses.set)
    THEN LET data == Get(c.rejected, log.user, NewRejected)
             upd  == [data EXCEPT
                        !.latest = date,
                        !.earliest = date,
                        !.blocked = Append(@, <<date, log.sender, Simplify(log.message)>>)]
         IN [c EXCEPT !.rejected = Put(@, log.user, upd)]
    ELSE c

scan_postfix_smtpd_line(date, log, c) ==
    IF log.form = "NOQUEUE" /\ Find(log.message, Greylisted) = 0
       /\ user_match(log.user)
       /\ (c.known_addresses.none \/ log.user \in c.known_addresses.set)
    THEN LET data == Get(c.rejected, log.user, NewRejected)
             upd  == [data EXCEPT
                        !.latest = IF @ = None THEN date ELSE @,
                        !.earliest = date,
                        !.blocked = Append(@, <<date, log.sender, Simplify(log.message)>>)]
         IN [c EXCEPT !.rejected = Put(@, log.user, upd)]
    ELSE c

\* ------------------------------------------------------ the classifier

\* The date of a line, had it been given the year of the clock.
ClockYear(l) == ReplaceYear(strptime(l.ts), RunYear)

\* The date of a line that matched the base pattern (lines 334-335).
LineDate(l) == ReplaceYear(strptime(l.ts), Year(START_DATE))

IgnoredServices ==
    {"postfix/qmgr", "postfix/pickup", "postfix/cleanup", "postfix/scache",
     "spampd", "postfix/anvil", "postfix/master", "opendkim", "postfix/lmtp",
     "postfix/tlsmgr", "anvil"}

\* A dispatch that runs every parser, whatever reports are switched on.
SwitchesIgnored(date, l, c) ==
    LET counted(d) == [d EXCEPT !.parse_count = @ + 1]
    IN  IF l.service = "postfix/submission/smtpd"
        THEN counted(scan_postfix_submission_line(date, l.log, c))
        ELSE IF l.service = "postfix/lmtp"
        THEN counted(scan_postfix_lmtp_line(date, l.log, c))
        ELSE IF l.service \in {"imap-login", "pop3-login"}
        THEN counted(scan_dovecot_line(date, l.log, c,
                                       IF l.service = "imap-login" THEN "imap" ELSE "pop3"))
        ELSE IF l.service = "postgrey"
        THEN counted(scan_postgrey_line(date, l.log, c))
        ELSE IF l.service = "postfix/smtpd"
        THEN counted(scan_postfix_smtpd_line(date, l.log, c))
        ELSE IF l.service \in IgnoredServices
        THEN c
        ELSE [c EXCEPT !.other_services = @ \cup {l.service}]

\* A dispatch that takes the tag of a parsed service whose report is off
\* for an unknown one.
OffIsUnknown(date, l, c) ==
    LET counted(d) == [d EXCEPT !.parse_count = @ + 1]
        unknown    == [c EXCEPT !.other_services = @ \cup {l.service}]
    IN  IF l.service = "postfix/submission/smtpd" /\ SCAN_OUT
        THEN counted(scan_postfix_submission_line(date, l.log, c))
        ELSE IF l.service = "postfix/lmtp" /\ SCAN_IN
        THEN counted(scan_postfix_lmtp_line(date, l.log, c))
        ELSE IF l.service \in {"imap-login", "pop3-login"} /\ SCAN_CONN
        THEN counted(scan_dovecot_line(date, l.log, c,
                                       IF l.service = "imap-login" THEN "imap" ELSE "pop3"))
        ELSE IF l.service = "postgrey" /\ SCAN_GREY
        THEN counted(scan_postgrey_line(date, l.log, c))
        ELSE IF l.service = "postfix/smtpd" /\ SCAN_BLOCKED
        THEN counted(scan_postfix_smtpd_line(date, l.log, c))
        ELSE IF l.service \in IgnoredServices \ {"postfix/lmtp"}
        THEN c
        ELSE unknown

\* A dispatch that counts a line as parsed only when its parser took an
\* observation from it.
CountObservations(date, l, c) ==
    LET counted(d) == IF d = c THEN c ELSE [d EXCEPT !.parse_count = @ + 1]
    IN  IF l.service = "postfix/submission/smtpd"
        THEN counted(IF SCAN_OUT THEN scan_postfix_submission_line(date, l.log, c) ELSE c)
        ELSE IF l.service = "postfix/lmtp"
        THEN counted(IF SCAN_IN THEN scan_postfix_lmtp_line(date, l.log, c) ELSE c)
        ELSE IF l.service \in {"imap-login", "pop3-login"}
        THEN counted(IF SCAN_CONN
                     THEN scan_dovecot_line(date, l.log, c,
                                            IF l.service = "imap-login" THEN "imap" ELSE "pop3")
                     ELSE c)
        ELSE IF l.service = "postgrey"
        THEN counted(IF SCAN_GREY THEN scan_postgrey_line(date, l.log, c) ELSE c)
        ELSE IF l.service = "postfix/smtpd"
        THEN counted(IF SCAN_BLOCKED THEN scan_postfix_smtpd_line(date, l.log, c) ELSE c)
        ELSE IF l.service \in IgnoredServices
        THEN c
        ELSE [c EXCEPT !.other_services = @ \cup {l.service}]

\* The dispatch of lines 345-370, for a line inside the window.
Dispatch(date, l, c) ==
    LET counted(d) == [d EXCEPT !.parse_count = @ + 1]
    IN  IF l.service = "postfix/submission/smtpd"
        THEN counted(IF SCAN_OUT THEN scan_postfix_submission_line(date, l.log, c) ELSE c)
        ELSE IF l.service = "postfix/lmtp"
        THEN counted(IF SCAN_IN THEN scan_postfix_lmtp_line(date, l.log, c) ELSE c)
        ELSE IF l.service \in {"imap-login", "pop3-login"}
        THEN counted(IF SCAN_CONN
                     THEN scan_dovecot_line(date, l.log, c,
                                            IF l.service = "imap-login" THEN "imap" ELSE "pop3")
                     ELSE c)
        ELSE IF l.service = "postgrey"
        THEN counted(IF SCAN_GREY THEN scan_postgrey_line(date, l.log, c) ELSE c)
        ELSE IF l.service = "postfix/smtpd"
        THEN counted(IF SCAN_BLOCKED THEN scan_postfix_smtpd_line(date, l.log, c) ELSE c)
        ELSE IF l.service \in IgnoredServices
        THEN c
        ELSE [c EXCEPT !.other_services = @ \cup {l.service}]

\* scan_mail_log_line without the test against START_DATE.
NoUpperBound(l, c) ==
    IF ~l.m
    THEN [c |-> c, ret |-> TRUE]
    ELSE LET c1   == [c EXCEPT !.scan_count = @ + 1]
             date == LineDate(l)
         IN  IF date < END_DATE THEN [c |-> c1, ret |-> FALSE]
             ELSE [c |-> Dispatch(date, l, c1), ret |-> TRUE]

\* scan_mail_log_line halting on END_DATE itself.
ExclusiveEnd(l, c) ==
    IF ~l.m
    THEN [c |-> c, ret |-> TRUE]
    ELSE LET c1   == [c EXCEPT !.scan_count = @ + 1]
             date == LineDate(l)
         IN  IF date > START_DATE THEN [c |-> c1, ret |-> TRUE]
             ELSE IF date <= END_DATE THEN [c |-> c1, ret |-> FALSE]
             ELSE [c |-> Dispatch(date, l, c1), ret |-> TRUE]

\* scan_mail_log_line counting a line as scanned only inside the window.
CountInWindow(l, c) ==
    IF ~l.m
    THEN [c |-> c, ret |-> TRUE]
    ELSE LET date == LineDate(l)
         IN  IF date > START_DATE THEN [c |-> c, ret |-> TRUE]
             ELSE IF date < END_DATE THEN [c |-> c, ret |-> FALSE]
             ELSE [c |-> Dispatch(date, l, [c EXCEPT !.scan_count = @ + 1]), ret |-> TRUE]

\* scan_mail_log_line counting a line that fails the base pattern as scanned.
CountMalformed(l, c) ==
    LET c1 == [c EXCEPT !.scan_count = @ + 1]
    IN  IF ~l.m
        THEN [c |-> c1, ret |-> TRUE]
        ELSE LET date == LineDate(l)
             IN  IF date > START_DATE THEN [c |-> c1, ret |-> TRUE]
                 ELSE IF date < END_DATE THEN [c |-> c1, ret |-> FALSE]
                 ELSE [c |-> Dispatch(date, l, c1), ret |-> TRUE]

\* scan_mail_log_line: the collector after the line, and the value returned.
scan_mail_log_line(l, c) ==
    IF ~l.m
    THEN [c |-> c, ret |-> TRUE]
    ELSE LET c1   == [c EXCEPT !.scan_count = @ + 1]
             date == LineDate(l)
         IN  IF date > START_DATE THEN [c |-> c1, ret |-> TRUE]
             ELSE IF date < END_DATE THEN [c |-> c1, ret |-> FALSE]
             ELSE [c |-> Dispatch(date, l, c1), ret |-> TRUE]

\* ------------------------------------------------------- scan_mail_log

\* The collector of lines 102-120; known is the known-address provider's
\* answer, [none |-> TRUE] when mailconfig cannot be imported.
InitialCollector(known) ==
    [scan_count |-> 0, parse_count |-> 0,
     sent_mail |-> [k \in {} |-> NewSent],
     received_mail |-> [k \in {} |-> NewReceived],
     dovecot |-> [k \in {} |-> NewLogin],
     postgrey |-> [k \in {} |-> [j \in {} |-> <<None, None>>]],
     rejected |-> [k \in {} |-> NewRejected],
     known_addresses |-> known,
     other_services |-> {}]

\* Lines 129-131: the empty result, or the reports.
Outcome(c) == IF c.scan_count = 0 THEN "empty" ELSE "report"

Done == pc \in {"empty", "report"}

\* scan_files returned from inside the loop over the lines (line 85).
Halted == Done /\ fi <= NumFiles

\* What the reader delivers for a line that fails the base pattern.
NoMatch == [m |-> FALSE, ts |-> 0, service |-> "-", log |-> [form |-> "-"]]

Unread == [state |-> "unread", lines |-> << >>]

\* ----------------------------------------------------------- the input

\* Where a delivered line falls: it fails the base pattern, or its
\* timestamp is no date, or its date is later than START_DATE, earlier than
\* END_DATE, or between the two.
Kind(l) ==
    IF ~l.m THEN "nomatch"
    ELSE IF ValueError(l.ts) THEN "invalid"
    ELSE IF LineDate(l) > START_DATE THEN "after"
    ELSE IF LineDate(l) < END_DATE THEN "before"
    ELSE "window"

alice == <<"a", "@", "x">>

bob == <<"b", "@", "x">>

Classified(stamps, services, logs) ==
    [m : {TRUE}, ts : stamps, service : services, log : logs]

Saved(users) == [form : {"to"}, user : users, status : {"Saved"}]

Sasl(users, clients) ==
    [form : {"client"}, client : clients, sasl_method : {"PLAIN"}, user : users]

Login(users, rips) == [form : {"Login"}, user : users, method : {"PLAIN"}, rip : rips]

Postgrey(actions, reasons, names, senders, users) ==
    [form : {"action"}, action : actions, reason : reasons, client_name : names,
     client_address : {"10.0.0.1"}, sender : senders, recipient : users]

Noqueue(messages, senders, users) ==
    [form : {"NOQUEUE"}, message : messages, sender : senders, user : users]

\* Reject messages: the two blocklists, an unknown user, a greylisting.
Messages ==
    {<<"554 5.7.1 Service unavailable; ", Zen, "https://www.spamhaus.org/query/ip">>,
     <<"554 5.7.1 Service unavailable; ", Dbl, "https://www.spamhaus.org/query/domain">>,
     <<"550 5.1.1 Recipient address rejected: User unknown">>,
     <<"450 4.2.0 ", Greylisted, ", see http://postgrey.schweikert.ch/help">>}

Other == [form : {"-"}]

\* The lines a host's log can hold, by what runs on the host.
Lines(a) ==
    IF a = "window"
    THEN {NoMatch}
         \cup Classified({22, 23, 25, 26}, {"postfix/lmtp"}, Saved({alice}))
         \cup Classified({22, 23, 25, 26}, {"cron"}, Other)
         \cup Classified({25}, {"postfix/qmgr"}, Other)
    ELSE IF a = "stats"
    THEN Classified({23, 24}, {"postfix/submission/smtpd"}, Sasl({alice}, {"c1"}))
         \cup Classified({23, 24}, {"postfix/lmtp"}, Saved({alice}))
         \cup Classified({23, 24}, {"imap-login", "pop3-login"}, Login({alice}, {"r1"}))
    ELSE IF a = "grey"
    THEN Classified({24, 25}, {"postgrey"},
                    Postgrey({"greylist"}, {"new"}, {"mx.y"}, {"s@y"}, {alice}))
         \cup Classified({24, 25}, {"postgrey"},
                    Postgrey({"pass"}, {"triplet found"}, {"mx.y"}, {"s@y"}, {alice}))
    ELSE IF a = "filter"
    THEN Classified({24}, {"postfix/submission/smtpd"}, Sasl({alice, bob}, {"c1"}))
         \cup Classified({24}, {"postfix/lmtp"}, Saved({alice, bob}))
         \cup Classified({24}, {"imap-login"}, Login({alice, bob}, {"r1"}))
         \cup Classified({24}, {"postgrey"},
                    Postgrey({"greylist"}, {"new"}, {"mx.y"}, {"s@y"}, {alice, bob}))
         \cup Classified({24}, {"postfix/smtpd"},
                    Noqueue({<<"550 5.1.1 Recipient address rejected: User unknown">>},
                            {"s@y"}, {alice, bob}))
    ELSE IF a = "span"
    THEN Classified({23, 24}, {"postfix/submission/smtpd"}, Sasl({alice}, {"c1"}))
         \cup Classified({23, 24}, {"postfix/lmtp"}, Saved({alice}))
         \cup Classified({23, 24}, {"imap-login"}, Login({alice}, {"r1"}))
         \cup Classified({23, 24}, {"postfix/smtpd"},
                    Noqueue({<<"550 5.1.1 Recipient address rejected: User unknown">>},
                            {"s@y"}, {alice}))
    ELSE IF a = "retry"
    THEN Classified({24}, {"postgrey"},
                    Postgrey({"greylist"}, {"new", "early-retry (250s missing)"},
                             {"mx.y"}, {"s@y"}, {alice}))
         \cup Classified({24}, {"postgrey"},
                    Postgrey({"pass"}, {"triplet found", "client whitelist"},
                             {"mx.y"}, {"s@y"}, {alice}))
    ELSE IF a = "year"
    THEN Classified({22, 24, 26, YearLen + 1}, {"postfix/lmtp"}, Saved({alice}))
    ELSE IF a = "switch"
    THEN Classified({24}, {"postfix/submission/smtpd"}, Sasl({alice}, {"c1"}))
         \cup Classified({22, 24}, {"postfix/lmtp"}, Saved({alice}))
         \cup Classified({22, 24}, {"imap-login"}, Login({alice}, {"r1"}))
         \cup Classified({24}, {"postgrey"},
                    Postgrey({"greylist"}, {"new"}, {"mx.y"}, {"s@y"}, {alice}))
         \cup Classified({24}, {"postfix/smtpd"},
                    Noqueue({<<"550 5.1.1 Recipient address rejected: User unknown">>},
                            {"s@y"}, {alice}))
    ELSE IF a = "known"
    THEN Classified({24}, {"postfix/smtpd"},
                    Noqueue({<<"550 5.1.1 Recipient address rejected: User unknown">>,
                             <<"450 4.2.0 ", Greylisted, ", see http://postgrey.schweikert.ch/help">>},
                            {"s@y"}, {alice, bob}))
    ELSE IF a = "keys"
    THEN Classified({23, 24}, {"postgrey"},
                    Postgrey({"greylist"}, {"new"}, {"mx.y"}, {"s@y"}, {alice}))
         \cup Classified({23, 24}, {"postgrey"},
                    Postgrey({"pass"}, {"triplet found"}, {"mx.y"}, {"s@y"}, {alice}))
         \cup Classified({24}, {"postgrey"},
                    Postgrey({"greylist"}, {"new"}, {"unknown"}, {"s@y"}, {alice}))
         \cup Classified({24}, {"postgrey"},
                    Postgrey({"pass"}, {"triplet found"}, {"mx.y"}, {"s@y"}, {bob}))
    ELSE IF a = "reject"
    THEN Classified({24}, {"postfix/smtpd"}, Noqueue(Messages, {"s@y"}, {alice}))
         \cup Classified({22, 24}, {"postfix/smtpd"}, Other)
    ELSE \* "again"
         {NoMatch}
         \cup Classified({22, 24}, {"postfix/lmtp"}, Saved({alice}))

\* ------------------------------------------------------------ scan_files

\* tmp_file = None: no temporary copy exists.
NoTmp == [exists |-> FALSE, complete |-> FALSE]

\* Lines 75-77: a .gz path is decompressed into a NamedTemporaryFile, which
\* is not flushed before it is read by name.  The last piece copyfileobj
\* writes is on disk when it was too long for the file object's buffer
\* ("written"), and otherwise still in that buffer ("buffered") when
\* reverse_readline opens the copy.
MakeTmp(fn, tail) ==
    IF fn.gz THEN [exists |-> TRUE, complete |-> (tail = "written")] ELSE NoTmp

\* A missing path that ends the walk over LOG_FILES.
MissingEndsWalk ==
    /\ pc = "files"
    /\ fi <= NumFiles
    /\ files[fi].state \in {"unread", "missing"}
    /\ files' = IF keep THEN [files EXCEPT ![fi].state = "missing"] ELSE files
    /\ fi' = NumFiles + 1
    /\ tmp_file' = NoTmp
    /\ UNCHANGED <<config, reader, collector, pc, pos, stop_scan, line, prev, seen, reads, run, first>>

\* os.path.exists(fn) is false: continue with the next path.
SkipMissing ==
    /\ pc = "files"
    /\ fi <= NumFiles
    /\ files[fi].state \in {"unread", "missing"}
    /\ files' = IF keep THEN [files EXCEPT ![fi].state = "missing"] ELSE files
    /\ fi' = fi + 1
    /\ tmp_file' = NoTmp
    /\ UNCHANGED <<config, reader, collector, pc, pos, stop_scan, line, prev, seen, reads, run, first>>

\* OpenFile with the two-strikes state restarted for every file.
OpenFileRestart ==
    /\ pc = "files"
    /\ fi <= NumFiles
    /\ files[fi].state # "missing"
    /\ files' = IF keep /\ files[fi].state = "unread"
                THEN [files EXCEPT ![fi].state = "partial"] ELSE files
    /\ pc' = "lines"
    /\ pos' = 0
    /\ stop_scan' = FALSE
    /\ \E tail \in {"written", "buffered"} : tmp_file' = MakeTmp(LOG_FILES[fi], tail)
    /\ UNCHANGED <<config, reader, collector, fi, line, prev, seen, reads, run, first>>

\* The path exists: reverse_readline starts at the end of the file.
OpenFile ==
    /\ pc = "files"
    /\ fi <= NumFiles
    /\ files[fi].state # "missing"
    /\ files' = IF keep /\ files[fi].state = "unread"
                THEN [files EXCEPT ![fi].state = "partial"] ELSE files
    /\ pc' = "lines"
    /\ pos' = 0
    /\ \E tail \in {"written", "buffered"} : tmp_file' = MakeTmp(LOG_FILES[fi], tail)
    /\ UNCHANGED <<config, reader, collector, fi, stop_scan, line, prev, seen, reads, run, first>>

\* A loop that returns at the first line outside the window's end.
OneStrike(ret, stop) == [return |-> ~ret, stop_scan |-> ~ret]

\* A loop in which a strike, once set, stays until the next line dated
\* before END_DATE.
StickyStrike(ret, stop) ==
    IF ret = FALSE
    THEN IF stop THEN [return |-> TRUE, stop_scan |-> stop]
                 ELSE [return |-> FALSE, stop_scan |-> TRUE]
    ELSE [return |-> FALSE, stop_scan |-> stop]

\* Lines 83-88: what the loop does with the value scan_mail_log_line returned.
LoopStep(ret, stop) ==
    IF ret = FALSE
    THEN IF stop THEN [return |-> TRUE, stop_scan |-> stop]
                 ELSE [return |-> FALSE, stop_scan |-> TRUE]
    ELSE [return |-> FALSE, stop_scan |-> FALSE]

\* The body of the for loop over the lines, for the line l.
Deliver(l) ==
    LET r == scan_mail_log_line(l, collector)
        s == LoopStep(r.ret, stop_scan)
        raised == l.m /\ ValueError(l.ts)
    IN  /\ line' = l
        /\ prev' = IF reads = 0 THEN "none" ELSE Kind(line)
        /\ seen' = seen \cup {Kind(l)}
        /\ reads' = reads + 1
        /\ pos' = pos + 1
        /\ IF raised
           THEN \* line 334 raises after line 324 has counted the line; nothing
                \* catches the exception and the program ends
                /\ collector' = [collector EXCEPT !.scan_count = @ + 1]
                /\ stop_scan' = stop_scan
                /\ pc' = "error"
                /\ tmp_file' = NoTmp
           ELSE /\ collector' = r.c
                /\ stop_scan' = s.stop_scan
                /\ pc' = IF s.return THEN Outcome(r.c) ELSE pc
                /\ tmp_file' = IF s.return THEN NoTmp ELSE tmp_file
        /\ UNCHANGED <<config, reader, fi, run, first>>

\* The reader delivers the next line of the current file, last line first.
ScanLine ==
    /\ pc = "lines"
    /\ IF pos < Len(files[fi].lines)
       THEN /\ Deliver(files[fi].lines[pos + 1])
            /\ UNCHANGED files
       ELSE /\ files[fi].state # "whole"
            /\ reads < MaxLines
            /\ \E l \in Lines(alphabet) :
                /\ Deliver(l)
                /\ files' = IF keep THEN [files EXCEPT ![fi].lines = Append(@, l)]
                            ELSE files

\* The reader has no more lines: the for loop goes to the next path.
EndOfFile ==
    /\ pc = "lines"
    /\ pos >= Len(files[fi].lines)
    /\ files' = IF keep THEN [files EXCEPT ![fi].state = "whole"] ELSE files
    /\ fi' = fi + 1
    /\ pc' = "files"
    /\ UNCHANGED <<config, reader, collector, pos, stop_scan, tmp_file, line, prev, seen, reads, run, first>>

\* LOG_FILES is exhausted: scan_files returns and scan_mail_log goes on.
FilesDone ==
    /\ pc = "files"
    /\ fi > NumFiles
    /\ pc' = Outcome(collector)
    /\ tmp_file' = NoTmp
    /\ UNCHANGED <<config, reader, files, collector, fi, pos, stop_scan, line, prev, seen, reads, run, first>>

\* A second scan that goes on with the collector of the first.
ScanAgainSameCollector ==
    /\ Done
    /\ keep
    /\ run = 1
    /\ run' = 2
    /\ first' = [pc |-> pc, collector |-> collector]
    /\ stop_scan' = FALSE
    /\ fi' = 1
    /\ pos' = 0
    /\ reads' = 0
    /\ prev' = "none"
    /\ seen' = {}
    /\ pc' = "files"
    /\ UNCHANGED <<config, reader, files, line, collector, tmp_file>>

\* scan_mail_log is run again over the same files, with the same settings.
ScanAgain ==
    /\ Done
    /\ keep
    /\ run = 1
    /\ run' = 2
    /\ first' = [pc |-> pc, collector |-> collector]
    /\ collector' = InitialCollector(collector.known_addresses)
    /\ stop_scan' = FALSE
    /\ fi' = 1
    /\ pos' = 0
    /\ reads' = 0
    /\ prev' = "none"
    /\ seen' = {}
    /\ pc' = "files"
    /\ UNCHANGED <<config, reader, files, line, tmp_file>>

Next == SkipMissing \/ OpenFile \/ ScanLine \/ EndOfFile \/ FilesDone

NextAgain == Next \/ ScanAgain

\* ------------------------------------------------------ reverse_readline

\* A file is text in UTF-8.  "a" and the line terminator take one byte each;
\* "E" stands for a character of two bytes, the lead byte "E1" and the
\* continuation byte "E2".
Chars == {"a", "\n", "E"}

Encode(c) == IF c = "E" THEN <<"E1", "E2">> ELSE <<c>>

RECURSIVE Bytes(_)
Bytes(text) == IF text = << >> THEN << >> ELSE Encode(Head(text)) \o Bytes(Tail(text))

\* fh.read(n) with the file position after the first p bytes: up to n
\* characters decoded from there; a continuation byte where a character
\* should start is a UnicodeDecodeError.
RECURSIVE Read(_, _, _)
Read(bytes, p, n) ==
    IF n <= 0 \/ p >= Len(bytes) THEN [ok |-> TRUE, text |-> << >>]
    ELSE IF bytes[p + 1] = "E2" THEN [ok |-> FALSE, text |-> << >>]
    ELSE LET lead == bytes[p + 1] = "E1"
             more == Read(bytes, p + (IF lead THEN 2 ELSE 1), n - 1)
         IN  [ok |-> more.ok, text |-> <<IF lead THEN "E" ELSE bytes[p + 1]>> \o more.text]

\* buff.split('\n')
RECURSIVE Split(_)
Split(text) ==
    IF text = << >> THEN << << >> >>
    ELSE LET rest == Split(Tail(text))
         IN  IF Head(text) = "\n" THEN << << >> >> \o rest
             ELSE << <<Head(text)>> \o rest[1] >> \o Tail(rest)

Min(a, b) == IF a <= b THEN a ELSE b

\* Lines 574-578: the file is open, file_size = remaining_size = fh.tell().
Open(text, buf_size) ==
    [pc |-> "loop", text |-> text, bytes |-> Bytes(text), buf_size |-> buf_size,
     segment |-> << >>, has |-> FALSE, offset |-> 0,
     remaining_size |-> Len(Bytes(text)), yielded |-> << >>]

\* Lines 580-599: one pass of the while loop.  has says that segment is not
\* None; yielded collects what the generator yields.
Block(r) ==
    LET file_size == Len(r.bytes)
        offset    == Min(file_size, r.offset + r.buf_size)
        got       == Read(r.bytes, file_size - offset, Min(r.remaining_size, r.buf_size))
        buff      == got.text
        split     == Split(buff)
        glue      == r.has /\ buff[Len(buff)] # "\n"
        lines     == IF glue THEN [split EXCEPT ![Len(split)] = @ \o r.segment] ELSE split
        before    == IF r.has /\ ~glue THEN <<r.segment>> ELSE << >>
        backwards == [i \in 1..(Len(lines) - 1) |-> lines[Len(lines) + 1 - i]]
    IN  IF ~got.ok
        THEN [r EXCEPT !.pc = "error"]
        ELSE [r EXCEPT !.offset = offset,
                       !.remaining_size = @ - r.buf_size,
                       !.segment = lines[1],
                       !.has = TRUE,
                       !.yielded = @ \o before \o SelectSeq(backwards, LAMBDA l : Len(l) > 0)]

\* Lines 600-602: after the loop.
Finish(r) ==
    [r EXCEPT !.pc = "done",
              !.yielded = IF r.has THEN Append(@, r.segment) ELSE @]

\* reverse_readline run to its end: all it yields, and how it stops.
RECURSIVE Exhaust(_)
Exhaust(r) ==
    IF r.pc # "loop" THEN r
    ELSE IF r.remaining_size > 0 THEN Exhaust(Block(r))
    ELSE Finish(r)

\* What stays of the scan while a file is read on its own.
scan == <<START_DATE, END_DATE, SCAN_OUT, SCAN_IN, SCAN_CONN, SCAN_GREY,
          SCAN_BLOCKED, FILTERS, alphabet, keep, files, collector, pc, fi,
          pos, stop_scan, tmp_file, line, reads, prev, seen, run, first>>

ReadBlock ==
    /\ reader.pc = "loop"
    /\ reader.remaining_size > 0
    /\ reader' = Block(reader)
    /\ UNCHANGED scan

ReadEnd ==
    /\ reader.pc = "loop"
    /\ reader.remaining_size <= 0
    /\ reader' = Finish(reader)
    /\ UNCHANGED scan

NextReader == ReadBlock \/ ReadEnd

\* ------------------------------------------------------- specifications

\* The state when scan_mail_log calls scan_files, for a host of kind a whose
\* categories are on as given; the window is the two hours before hour 25
\* of the run's year.
ScanSetupAt(start, a, out, in, conn, grey, blocked, known, again, filters) ==
    /\ START_DATE = start
    /\ END_DATE = START_DATE - 2
    /\ SCAN_OUT = out
    /\ SCAN_IN = in
    /\ SCAN_CONN = conn
    /\ SCAN_GREY = grey
    /\ SCAN_BLOCKED = blocked
    /\ FILTERS = filters
    /\ alphabet = a
    /\ keep = again
    /\ files = [f \in 1..NumFiles |-> Unread]
    /\ collector = InitialCollector(known)
    /\ pc = "files"
    /\ fi = 1
    /\ pos = 0
    /\ stop_scan = FALSE
    /\ tmp_file = NoTmp
    /\ line = NoMatch
    /\ reads = 0
    /\ prev = "none"
    /\ seen = {}
    /\ run = 1
    /\ first = [pc |-> "none", collector |-> InitialCollector(known)]

NoKnown == [none |-> TRUE]

\* Without --startdate: START_DATE is the time of the clock.
ScanSetup(a, out, in, conn, grey, blocked, known, again, filters) ==
    ScanSetupAt(Date(RunYear, 25), a, out, in, conn, grey, blocked, known, again, filters)

NoFilters == [none |-> TRUE]

\* During a scan reverse_readline is not stepped through: the scan takes
\* the lines it yields as input.
IdleReader == [pc |-> "idle"]

\* A scan without user filters.
Setup(a, out, in, conn, grey, blocked, known, again) ==
    /\ ScanSetup(a, out, in, conn, grey, blocked, known, again, NoFilters)
    /\ reader = IdleReader

\* The window scanner: received mail on or off, the other categories as the
\* program sets them by default.
Init == \E in \in BOOLEAN : Setup("window", TRUE, in, FALSE, FALSE, FALSE, NoKnown, FALSE)

Spec == Init /\ [][Next]_vars

\* Sent mail, received mail and logins.
InitStats == Setup("stats", TRUE, TRUE, TRUE, FALSE, FALSE, NoKnown, FALSE)

SpecStats == InitStats /\ [][Next]_vars

\* Greylisting.
InitGrey == Setup("grey", FALSE, FALSE, FALSE, TRUE, FALSE, NoKnown, TRUE)

SpecGrey == InitGrey /\ [][Next]_vars

\* Two scans of the same files.
InitAgain == Setup("again", TRUE, TRUE, FALSE, FALSE, FALSE, NoKnown, TRUE)

SpecAgain == InitAgain /\ [][NextAgain]_vars

\* --users: the list is what split(',') gives, never empty.
Filter(strings) == [none |-> FALSE, list |-> strings]

\* All five reports, with and without --users.
InitFilter ==
    /\ \E filters \in {NoFilters, Filter({<<"c">>, <<"a", "@">>})} :
         ScanSetup("filter", TRUE, TRUE, TRUE, TRUE, TRUE, NoKnown, FALSE, filters)
    /\ reader = IdleReader

SpecFilter == InitFilter /\ [][Next]_vars

\* The four reports that keep an earliest and a latest date.
InitSpan == Setup("span", TRUE, TRUE, TRUE, FALSE, TRUE, NoKnown, FALSE)

SpecSpan == InitSpan /\ [][Next]_vars

\* Greylisting with senders that come back too early.
InitRetry == Setup("retry", FALSE, FALSE, FALSE, TRUE, FALSE, NoKnown, FALSE)

SpecRetry == InitRetry /\ [][Next]_vars

\* The texts of up to MaxLen characters.
Texts == UNION {[1..n -> Chars] : n \in 0..MaxLen}

\* reverse_readline on its own, called on a file with a block size.
InitReader ==
    /\ ScanSetup("window", TRUE, TRUE, FALSE, FALSE, FALSE, NoKnown, FALSE, NoFilters)
    /\ \E text \in Texts, buf_size \in 1..MaxBuf : reader = Open(text, buf_size)

SpecReader == InitReader /\ [][NextReader]_vars

\* With and without --startdate: the window ends now, or at the same hour
\* of last year.
InitYear ==
    /\ \E year \in {RunYear - 1, RunYear} :
         ScanSetupAt(Date(year, 25), "year", TRUE, TRUE, FALSE, FALSE, FALSE,
                     NoKnown, FALSE, NoFilters)
    /\ reader = IdleReader

SpecYear == InitYear /\ [][Next]_vars

\* The report switches: one report is on and four are off, or all are off.
Reports == {"sent", "received", "logins", "grey", "blocked", "none"}

InitSwitch == \E on \in Reports :
    Setup("switch", on = "sent", on = "received", on = "logins", on = "grey",
          on = "blocked", NoKnown, FALSE)

SpecSwitch == InitSwitch /\ [][Next]_vars

\* mailconfig could be imported: the users and aliases of the box.
Known(addresses) == [none |-> FALSE, set |-> addresses]

\* The reject report with and without known addresses and --users.
InitKnown ==
    /\ \E known \in {NoKnown, Known({alice}), Known({})},
          filters \in {NoFilters, Filter({<<"b", "@">>})} :
         ScanSetup("known", FALSE, FALSE, FALSE, FALSE, TRUE, known, FALSE, filters)
    /\ reader = IdleReader

SpecKnown == InitKnown /\ [][Next]_vars

\* Greylisting of several senders and recipients.
InitKeys == Setup("keys", FALSE, FALSE, FALSE, TRUE, FALSE, NoKnown, FALSE)

SpecKeys == InitKeys /\ [][Next]_vars

\* Rejected mail, reported or not: what postfix/smtpd writes.
InitReject == \E blocked \in BOOLEAN :
    Setup("reject", FALSE, FALSE, FALSE, FALSE, blocked, NoKnown, FALSE)

SpecReject == InitReject /\ [][Next]_vars

\* ------------------------------------------------------------ the claims

\* The step is one in which the reader delivers a line.
Delivers == reads' = reads + 1

\* C1: two lines dated before END_DATE delivered one directly after the
\* other within one file halt the scan at the second; after the halt no line
\* is delivered and the collector does not change; a line dated before
\* END_DATE that follows an in-window line of its file does not halt, and
\* neither does an in-window line.
C1_TwoStrikesInOneFile ==
    [][ /\ (Delivers /\ pos >= 1 /\ Kind(line) = "before" /\ Kind(line') = "before")
            => Halted'
        /\ Halted => (collector' = collector /\ reads' = reads)
        /\ (Delivers /\ pos >= 1 /\ Kind(line) = "window" /\ Kind(line') = "before")
            => ~Done'
        /\ (Delivers /\ Kind(line') = "window") => ~Done'
      ]_vars

\* The scan halted on the second of two before-window lines of the newest
\* file, after an in-window line, with older files left unread.
C1_Witness ==
    /\ Halted
    /\ fi = 1
    /\ pos >= 3
    /\ prev = "before"
    /\ Kind(line) = "before"
    /\ "window" \in seen

\* C2 as claimed: a before-window line delivered first from a file, after a
\* before-window line that was the last of the file before it, does not halt
\* the scan.
C2_RestartPerFile ==
    [][ (Delivers /\ reads >= 1 /\ pos = 0 /\ Kind(line) = "before"
            /\ Kind(line') = "before") => ~Done' ]_vars

\* C2 amended: the strike is carried from one file into the next; the scan
\* halts exactly when the two lines delivered last, in one file or across a
\* file boundary, are both dated before END_DATE.
C2_StrikeCarriesOver ==
    [][ Delivers =>
          (Halted' <=> (reads >= 1 /\ Kind(line) = "before" /\ Kind(line') = "before"))
      ]_vars

\* The scan halted on the first line of a file: the line before it was the
\* last line of the previous file.
C2_Witness ==
    /\ Halted
    /\ fi >= 2
    /\ pos = 1
    /\ prev = "before"
    /\ Kind(line) = "before"

\* C3 as claimed: a line dated after START_DATE changes nothing in the
\* collector and is no strike.
C3_AfterChangesNothing ==
    [][ (Delivers /\ Kind(line') = "after")
            => (collector' = collector /\ stop_scan' = FALSE /\ ~Done') ]_vars

\* C3 amended: a line dated after START_DATE adds one to scan_count, changes
\* nothing else in the collector, and is no strike.
C3_AfterOnlyCounted ==
    [][ (Delivers /\ Kind(line') = "after")
            => /\ collector' = [collector EXCEPT !.scan_count = @ + 1]
               /\ stop_scan' = FALSE
               /\ ~Done' ]_vars

\* A line dated after START_DATE was delivered right after a first strike.
C3_Witness ==
    /\ pc = "lines"
    /\ reads >= 2
    /\ Kind(line) = "after"
    /\ line.service = "postfix/lmtp"
    /\ SCAN_IN
    /\ prev = "before"
    /\ ~stop_scan
    /\ collector.scan_count >= 2

\* The received-mail parser got the line of this step.
Received == collector'.received_mail # collector.received_mail

\* C4 as claimed: a line is processed iff END_DATE < date <= START_DATE.
C4_HalfOpenWindow ==
    [][ (Delivers /\ line'.m /\ line'.service = "postfix/lmtp" /\ SCAN_IN)
            => (Received <=> (END_DATE < LineDate(line') /\ LineDate(line') <= START_DATE))
      ]_vars

\* C4 amended: a line is processed iff END_DATE <= date <= START_DATE; a
\* line dated exactly END_DATE is processed.
C4_ClosedWindow ==
    [][ (Delivers /\ line'.m /\ line'.service = "postfix/lmtp" /\ SCAN_IN)
            => (Received <=> (END_DATE <= LineDate(line') /\ LineDate(line') <= START_DATE))
      ]_vars

\* A delivery dated exactly END_DATE is in the received-mail statistics.
C4_Witness ==
    /\ reads >= 1
    /\ line.m
    /\ line.service = "postfix/lmtp"
    /\ LineDate(line) = END_DATE
    /\ alice \in DOMAIN collector.received_mail
    /\ collector.received_mail[alice].earliest = END_DATE

\* The lines delivered so far by a first scan that keeps the files: the
\* files' known lines, in the order they were read.
RECURSIVE ReadUpTo(_)
ReadUpTo(f) == IF f = 0 THEN << >> ELSE ReadUpTo(f - 1) \o files[f].lines

Delivered == ReadUpTo(NumFiles)

\* The line is a greylisting event the parser takes up.
IsGreyEvent(l) ==
    /\ Kind(l) = "window"
    /\ l.service = "postgrey"
    /\ l.log.form = "action"
    /\ l.log.action \in {"greylist", "pass"}

IsGreylistNew(l) == IsGreyEvent(l) /\ l.log.action = "greylist" /\ l.log.reason = "new"

IsPass(l) == IsGreyEvent(l) /\ l.log.action = "pass"

\* The (recipient, clientIdentity, sender) of a greylisting event.
Triple(l) ==
    <<l.log.recipient,
      IF l.log.client_name = "unknown" THEN l.log.client_address ELSE l.log.client_name,
      l.log.sender>>

Triples == {Triple(l) : l \in {x \in Lines("grey") : IsGreyEvent(x)}}

\* The places in the delivered lines of the greylist/new, and of the pass,
\* events of a triple.
NewsOf(t) == {i \in 1..Len(Delivered) : IsGreylistNew(Delivered[i]) /\ Triple(Delivered[i]) = t}

PassesOf(t) == {i \in 1..Len(Delivered) : IsPass(Delivered[i]) /\ Triple(Delivered[i]) = t}

Max(S) == CHOOSE x \in S : \A y \in S : y <= x

RecordIn(c, t) == c.postgrey[t[1]][<<t[2], t[3]>>]

HasRecord(t) ==
    /\ t[1] \in DOMAIN collector.postgrey
    /\ <<t[2], t[3]>> \in DOMAIN collector.postgrey[t[1]]

Record(t) == RecordIn(collector, t)

\* C5: when the scan has met one greylist/new event and one pass event of a
\* triple, in whichever order, the triple has one record, holding the date
\* of the greylist event and the date of the pass event.
C5_GreylistOrderIndependent ==
    \A t \in Triples :
        (run = 1 /\ Cardinality(NewsOf(t)) = 1 /\ Cardinality(PassesOf(t)) = 1)
        => LET g == CHOOSE i \in NewsOf(t) : TRUE
               p == CHOOSE i \in PassesOf(t) : TRUE
           IN  /\ HasRecord(t)
               /\ Record(t) = <<LineDate(Delivered[g]), LineDate(Delivered[p])>>
               /\ (\A i \in 1..Len(Delivered) :
                      IsGreyEvent(Delivered[i]) => Triple(Delivered[i]) = t)
                  => DOMAIN collector.postgrey[t[1]] = {<<t[2], t[3]>>}

\* The pass event was met first and the greylist event, of another date,
\* after it.
C5_Witness ==
    \E t \in Triples :
        /\ run = 1
        /\ Cardinality(NewsOf(t)) = 1
        /\ Cardinality(PassesOf(t)) = 1
        /\ \E g \in NewsOf(t), p \in PassesOf(t) :
            /\ p < g
            /\ LineDate(Delivered[g]) # LineDate(Delivered[p])
            /\ Record(t) = <<LineDate(Delivered[g]), LineDate(Delivered[p])>>

\* C6 as claimed: a greylist/new event for a record whose first greylist
\* date is populated leaves that date as it is.
C6_FirstGreylistDateKept ==
    [][ (Delivers /\ IsGreylistNew(line') /\ HasRecord(Triple(line'))
            /\ Record(Triple(line'))[1] # None)
        => RecordIn(collector', Triple(line'))[1] = Record(Triple(line'))[1] ]_vars

\* C6 amended: every greylist/new event overwrites the first greylist date
\* of its record and leaves the pass date alone, so the field holds the date
\* of the greylist/new event of the triple that the scan met last.
C6_FirstGreylistDateOverwritten ==
    \A t \in Triples :
        (run = 1 /\ NewsOf(t) # {})
        => /\ HasRecord(t)
           /\ Record(t)[1] = LineDate(Delivered[Max(NewsOf(t))])

\* Two greylist/new events of one triple with different dates were met, and
\* the record holds the date of the second.
C6_Witness ==
    \E t \in Triples :
        /\ run = 1
        /\ \E i, j \in NewsOf(t) :
            /\ i < j
            /\ j = Max(NewsOf(t))
            /\ LineDate(Delivered[i]) # LineDate(Delivered[j])
            /\ Record(t)[1] = LineDate(Delivered[j])
            /\ Record(t)[1] # LineDate(Delivered[i])

RECURSIVE SumOver(_, _)
SumOver(d, keys) ==
    IF keys = {} THEN 0
    ELSE LET k == CHOOSE x \in keys : TRUE IN d[k] + SumOver(d, keys \ {k})

\* The total of a histogram.
Total(d) == SumOver(d, DOMAIN d)

Populated(stat) == stat.earliest # None /\ stat.latest # None

\* C7: every populated stat has earliest <= latest.
C7_EarliestNotAfterLatest ==
    /\ \A u \in DOMAIN collector.sent_mail :
        Populated(collector.sent_mail[u])
        => collector.sent_mail[u].earliest <= collector.sent_mail[u].latest
    /\ \A u \in DOMAIN collector.received_mail :
        Populated(collector.received_mail[u])
        => collector.received_mail[u].earliest <= collector.received_mail[u].latest
    /\ \A u \in DOMAIN collector.dovecot :
        Populated(collector.dovecot[u])
        => collector.dovecot[u].earliest <= collector.dovecot[u].latest
    /\ \A u \in DOMAIN collector.rejected :
        Populated(collector.rejected[u])
        => collector.rejected[u].earliest <= collector.rejected[u].latest

\* C8: every hour histogram sums to the count it belongs to.
C8_HistogramSumsToCount ==
    /\ \A u \in DOMAIN collector.sent_mail :
        Total(collector.sent_mail[u].activity_by_hour) = collector.sent_mail[u].sent_count
    /\ \A u \in DOMAIN collector.received_mail :
        Total(collector.received_mail[u].activity_by_hour)
            = collector.received_mail[u].received_count
    /\ \A u \in DOMAIN collector.dovecot :
        /\ Total(collector.dovecot[u].activity_by_hour.imap) = collector.dovecot[u].imap
        /\ Total(collector.dovecot[u].activity_by_hour.pop3) = collector.dovecot[u].pop3

\* A sender with two mails in two different hours, and a user with an imap
\* and a pop3 login.
C8_Witness ==
    /\ alice \in DOMAIN collector.sent_mail
    /\ collector.sent_mail[alice].sent_count = 2
    /\ Cardinality(DOMAIN collector.sent_mail[alice].activity_by_hour) = 2
    /\ alice \in DOMAIN collector.dovecot
    /\ collector.dovecot[alice].imap = 1
    /\ collector.dovecot[alice].pop3 = 1

\* C9: a second scan of the same files with the same settings ends as the
\* first did, with the same collector.
C9_SecondScanSameResult ==
    (run = 2 /\ Done) => (pc = first.pc /\ collector = first.collector)

\* Both scans halted in the second file on two before-window lines, after
\* counting received mail.
C9_Witness ==
    /\ run = 2
    /\ Halted
    /\ fi >= 2
    /\ first.pc = "report"
    /\ alice \in DOMAIN first.collector.received_mail
    /\ first.collector.received_mail[alice].received_count >= 2

\* C10 as claimed: a scan that met no line dated inside the window ends in
\* the empty result.
C10_EmptyWhenNothingInWindow ==
    (Done /\ "window" \notin seen) => pc = "empty"

\* C10 amended: the scan ends in the empty result exactly when no delivered
\* line matched the base pattern; a classified line outside the window is
\* counted as scanned and leads to the reports.
C10_EmptyWhenNothingClassified ==
    Done => (pc = "empty" <=> seen \subseteq {"nomatch"})

\* A scan that met classified lines, none of them in the window, ended in
\* the reports.
C10_Witness ==
    /\ Done
    /\ pc = "report"
    /\ "window" \notin seen
    /\ collector.parse_count = 0

\* C12: a line that fails the base pattern leaves the whole collector as it
\* was (scan_count, parse_count, the unknown services, every per-user
\* collection), and the scan goes on reading the same file.
C12_MalformedLineDropped ==
    [][ (Delivers /\ ~line'.m)
            => (collector' = collector /\ pc' = "lines" /\ fi' = fi) ]_vars

\* A malformed line was delivered right after a first strike, and the scan
\* is still reading.
C12_Witness ==
    /\ pc = "lines"
    /\ ~line.m
    /\ prev = "before"
    /\ reads >= 2
    /\ collector.scan_count = reads - 1

\* The step goes past a path without opening it.
Skips == pc = "files" /\ pc' = "files" /\ fi' # fi

\* C17: a path that does not exist is passed over with the collector, the
\* strike and the outcome untouched, and the walk goes to the next path; the
\* walk never goes back or jumps a path, and a line is delivered only from
\* the one file that is open, which stays the current one.
C17_MissingSkippedInOrder ==
    [][ /\ Skips => /\ collector' = collector
                    /\ stop_scan' = stop_scan
                    /\ fi' = fi + 1
        /\ run' = run => fi' \in {fi, fi + 1}
        /\ Delivers => (pc = "lines" /\ fi' = fi /\ fi <= NumFiles)
      ]_vars

\* The newest path was missing, the second was read to its end, and the
\* scan is reading the third.
C17_Witness ==
    /\ run = 1
    /\ files[1].state = "missing"
    /\ files[2].state = "whole"
    /\ Len(files[2].lines) >= 1
    /\ fi = 3
    /\ pc = "lines"
    /\ pos >= 1
    /\ collector.scan_count >= 2

\* The service tags that have a parser (lines 345-358).
ParsedServices ==
    {"postfix/submission/smtpd", "postfix/lmtp", "imap-login", "pop3-login",
     "postgrey", "postfix/smtpd"}

\* The per-user collections of a collector.
Collections(c) == <<c.sent_mail, c.received_mail, c.dovecot, c.postgrey, c.rejected>>

\* The line is inside the window, carries the tag of a parsed service, and
\* its body has not the form that service's detail pattern asks for.
PatternFails(l) ==
    /\ Kind(l) = "window"
    /\ l.service \in ParsedServices
    /\ l.log.form = "-"

Blames(l, list) == Len(l.log.message) = 3 /\ l.log.message[2] = list

\* The reason stored last for alice.
LastReason(c) == c.rejected[alice].blocked[Len(c.rejected[alice].blocked)][3]

\* A reject of mail for alice that is reported.
RejectReported(l) ==
    /\ SCAN_BLOCKED
    /\ Kind(l) = "window"
    /\ l.service = "postfix/smtpd"
    /\ l.log.form = "NOQUEUE"
    /\ \A i \in 1..Len(l.log.message) : l.log.message[i] # Greylisted

\* C18: a reject is stored with its date and sender; a zen rejection's
\* reason is "ip blocked: " and the explanation, a dbl rejection's is
\* "domain blocked: " and the explanation, any other reason is the message
\* as it was logged.
C18_ReasonNormalized ==
    [][ (Delivers /\ RejectReported(line'))
            => /\ alice \in DOMAIN collector'.rejected
               /\ Len(collector'.rejected[alice].blocked)
                    = Len(Get(collector.rejected, alice, NewRejected).blocked) + 1
               /\ LastReason(collector') =
                    IF Blames(line', Zen)
                    THEN <<"ip blocked: ", line'.log.message[3]>>
                    ELSE IF Blames(line', Dbl)
                    THEN <<"domain blocked: ", line'.log.message[3]>>
                    ELSE line'.log.message
      ]_vars

\* Three rejects are stored for alice: one by zen, one by dbl, one for an
\* unknown user.
C18_Witness ==
    /\ alice \in DOMAIN collector.rejected
    /\ LET reasons == {collector.rejected[alice].blocked[i][3] :
                        i \in 1..Len(collector.rejected[alice].blocked)}
       IN  /\ \E r \in reasons : r[1] = "ip blocked: "
           /\ \E r \in reasons : r[1] = "domain blocked: "
           /\ \E r \in reasons : r \in Messages

\* The address in the body of a line of one of the five parsers.
UserOf(l) == IF l.service = "postgrey" THEN l.log.recipient ELSE l.log.user

\* The collection the parser of the line's service writes to.
CollectionOf(l, c) ==
    IF l.service = "postfix/submission/smtpd" THEN c.sent_mail
    ELSE IF l.service = "postfix/lmtp" THEN c.received_mail
    ELSE IF l.service = "postgrey" THEN c.postgrey
    ELSE IF l.service = "postfix/smtpd" THEN c.rejected
    ELSE c.dovecot

\* The address contains one of the filter strings.
ContainsFilter(user) ==
    \E f \in FILTERS.list :
        \E i \in 1..Len(user) :
            i + Len(f) - 1 <= Len(user) /\ SubSeq(user, i, i + Len(f) - 1) = f

\* A line inside the window whose body matches the pattern of its parser.
Observation(l) ==
    Kind(l) = "window" /\ l.service \in ParsedServices /\ l.log.form # "-"

\* C13: with a filter list, a line of any of the five parsers is recorded
\* under its address if the address contains one of the filter strings, and
\* changes no collection if it contains none; without a filter list every
\* address is recorded.  (A greylisting met a second time with the same date
\* is recorded by leaving its record as it is.)
C13_FilterBySubstring ==
    [][ (Delivers /\ Observation(line'))
            => IF FILTERS.none \/ ContainsFilter(UserOf(line'))
               THEN /\ UserOf(line') \in DOMAIN CollectionOf(line', collector')
                    /\ line'.service # "postgrey"
                        => CollectionOf(line', collector')[UserOf(line')]
                            # Get(CollectionOf(line', collector), UserOf(line'), << >>)
               ELSE Collections(collector') = Collections(collector)
      ]_vars

\* Under a filter that alice's address contains and bob's does not, three
\* parsers have recorded alice, and a line for bob has been met and left
\* no trace.
C13_Witness ==
    /\ ~FILTERS.none
    /\ ContainsFilter(alice)
    /\ ~ContainsFilter(bob)
    /\ Observation(line)
    /\ UserOf(line) = bob
    /\ Cardinality({i \in 1..5 : alice \in DOMAIN Collections(collector)[i]}) >= 3
    /\ \A i \in 1..5 : bob \notin DOMAIN Collections(collector)[i]
    /\ collector.parse_count = reads

\* C19: an observation for a sent, received, login or reject stat sets
\* earliest to its date; it sets latest to its date if it is the first met
\* for its key, and leaves latest as it is otherwise.  Hence latest is the
\* date of the first observation met and earliest that of the last one met.
C19_LatestOnceEarliestAlways ==
    [][ (Delivers /\ Observation(line') /\ line'.service # "postgrey")
            => LET u   == UserOf(line')
                   old == CollectionOf(line', collector)
                   new == CollectionOf(line', collector')
               IN  /\ u \in DOMAIN new
                   /\ new[u].earliest = LineDate(line')
                   /\ new[u].latest = IF u \in DOMAIN old THEN old[u].latest
                                      ELSE LineDate(line')
      ]_vars

\* Three rejects were met for alice, the first and the last with different
\* dates: latest is the date of the first, earliest that of the last.
C19_Witness ==
    /\ alice \in DOMAIN collector.rejected
    /\ LET stat == collector.rejected[alice]
       IN  /\ Len(stat.blocked) = 3
           /\ stat.latest = stat.blocked[1][1]
           /\ stat.earliest = stat.blocked[3][1]
           /\ stat.latest # stat.earliest
           /\ stat.blocked[2][1] = stat.earliest
    /\ alice \in DOMAIN collector.dovecot

\* A greylist or pass line of postgrey inside the window, with the greylist
\* report on.
GreyAction(l, action) ==
    /\ SCAN_GREY
    /\ Kind(l) = "window"
    /\ l.service = "postgrey"
    /\ l.log.form = "action"
    /\ l.log.action = action

\* C20: a greylist action whose reason is not "new" leaves the greylist
\* collection as it was, with no record for its key and no entry for its
\* recipient added; a pass action sets the pass date of its record whatever
\* its reason.
C20_RepeatGreylistIgnored ==
    [][ /\ (Delivers /\ GreyAction(line', "greylist") /\ line'.log.reason # "new")
            => collector'.postgrey = collector.postgrey
        /\ (Delivers /\ GreyAction(line', "pass"))
            => LET t == Triple(line')
               IN  /\ t[1] \in DOMAIN collector'.postgrey
                   /\ <<t[2], t[3]>> \in DOMAIN collector'.postgrey[t[1]]
                   /\ RecordIn(collector', t)[2] = LineDate(line')
      ]_vars

\* C16: while the lines of a .gz file are read, its temporary copy holds the
\* whole decompressed content, and no copy is left when the scan has ended,
\* by a halt or at the end of the last file.
C16_TempCopyWholeThenRemoved ==
    /\ (pc = "lines" /\ tmp_file.exists) => tmp_file.complete
    /\ Done => ~tmp_file.exists

\* The reader has stopped, at the end of the file or with an exception.
Stopped == reader.pc \in {"done", "error"}

NonEmptyOf(lines) == SelectSeq(lines, LAMBDA l : Len(l) > 0)

Reverse(s) == [i \in 1..Len(s) |-> s[Len(s) + 1 - i]]

\* The non-empty lines of a text, last first.
Expected(text) == Reverse(NonEmptyOf(Split(text)))

IsPrefix(s, t) == Len(s) <= Len(t) /\ \A i \in 1..Len(s) : s[i] = t[i]

\* C14: whatever the text and the block size, the non-empty lines yielded
\* so far are the first of the text's non-empty lines in reverse order,
\* and when reverse_readline stops it has come to the end of the file and
\* has yielded all of them, each once and whole.
C14_LinesInReverse ==
    /\ reader.pc # "idle" => IsPrefix(NonEmptyOf(reader.yielded), Expected(reader.text))
    /\ Stopped => (reader.pc = "done"
                   /\ NonEmptyOf(reader.yielded) = Expected(reader.text))

\* The text is not empty and does not end with a line terminator.
Unterminated(text) == text # << >> /\ text[Len(text)] # "\n"

\* C15: on an empty file reverse_readline yields nothing; on a file whose
\* last line has no terminator it yields that line first and whole, and
\* yields the same non-empty lines as on the file with the terminator added.
C15_EmptyAndUnterminated ==
    /\ (Stopped /\ reader.text = << >>)
        => (reader.pc = "done" /\ reader.yielded = << >>)
    /\ (Stopped /\ Unterminated(reader.text))
        => /\ reader.pc = "done"
           /\ reader.yielded # << >>
           /\ reader.yielded[1] = Split(reader.text)[Len(Split(reader.text))]
           /\ LET terminated == Exhaust(Open(Append(reader.text, "\n"), reader.buf_size))
              IN  /\ terminated.pc = "done"
                  /\ NonEmptyOf(terminated.yielded) = NonEmptyOf(reader.yielded)

\* C26: the scan halts at a line only if that line and the one delivered
\* just before it are both dated before END_DATE; a line that is inside the
\* window, dated after START_DATE, or fails the base pattern clears the
\* strike, and a before-window line that does not follow another one
\* directly is a first strike, not a halt.
C26_OnlyDirectSuccessionHalts ==
    [][ /\ (Delivers /\ Halted')
            => (reads >= 1 /\ Kind(line) = "before" /\ Kind(line') = "before")
        /\ (Delivers /\ Kind(line') \in {"window", "after", "nomatch"})
            => (stop_scan' = FALSE /\ ~Done')
        /\ (Delivers /\ Kind(line') = "before" /\ (reads = 0 \/ Kind(line) # "before"))
            => (stop_scan' = TRUE /\ ~Done')
      ]_vars

\* A before-window line, then a line that fails the base pattern, then a
\* before-window line again: the scan goes on, with one strike.
C26_Witness ==
    /\ pc = "lines"
    /\ reads = 3
    /\ seen = {"before", "nomatch"}
    /\ prev = "nomatch"
    /\ Kind(line) = "before"
    /\ collector.scan_count = 2
    /\ stop_scan

\* The line of this step was treated as one dated d: counted as scanned in
\* any case, taken into the received-mail statistics if d is inside the
\* window, a strike if d is before it.
TreatedAsDated(d) ==
    /\ collector'.scan_count = collector.scan_count + 1
    /\ Received <=> (END_DATE <= d /\ d <= START_DATE)
    /\ (stop_scan' \/ Halted') <=> d < END_DATE

\* C25 as claimed: a classified line is compared with the window under the
\* year of the clock, whatever START_DATE is.
C25_YearOfTheClock ==
    [][ (Delivers /\ line'.m /\ ~ValueError(line'.ts))
            => TreatedAsDated(Date(RunYear, line'.ts)) ]_vars

\* C25 amended: a classified line is compared with the window under the
\* year of START_DATE, which is the year of the clock only when no start
\* date was given; a line whose timestamp lies in the leap day is given no
\* year at all: strptime raises and the scan ends with the exception.
C25_YearOfStartDate ==
    [][ /\ (Delivers /\ line'.m /\ ~ValueError(line'.ts))
            => TreatedAsDated(Date(START_DATE \div YearLen, line'.ts))
        /\ (Delivers /\ line'.m /\ ValueError(line'.ts))
            => (pc' = "error" /\ Collections(collector') = Collections(collector))
      ]_vars

\* The start date lies in the year before the clock's, and a delivery of
\* that year's hour 24 is in the statistics, dated in that year.
C25_Witness ==
    /\ START_DATE = Date(RunYear - 1, 25)
    /\ line.ts = 24
    /\ alice \in DOMAIN collector.received_mail
    /\ collector.received_mail[alice].received_count = 1
    /\ collector.received_mail[alice].latest = Date(RunYear - 1, 24)

\* C22: a line adds its service tag to the unknown-service set if it is
\* inside the window and its tag is neither that of a parsed service nor
\* an ignored one, and no line changes the set otherwise; so the set holds
\* exactly those tags, and never an ignored tag or the tag of a parsed
\* service, be its report on or off.
C22_UnknownServicesExact ==
    [][ Delivers =>
          collector'.other_services = collector.other_services \cup
              (IF Kind(line') = "window"
                  /\ line'.service \notin ParsedServices
                  /\ line'.service \notin IgnoredServices
               THEN {line'.service} ELSE {})
      ]_vars

\* With the received-mail report off, the scan has met an in-window line
\* of cron, one of postfix/qmgr and one of postfix/lmtp: only cron is in
\* the set.
C22_Witness ==
    /\ ~SCAN_IN
    /\ collector.other_services = {"cron"}
    /\ collector.scan_count = 3
    /\ collector.parse_count = 1
    /\ seen = {"window"}
    /\ line.service = "postfix/qmgr"

\* The report that a parsed service's lines go to is switched on.
SwitchedOn(service) ==
    IF service = "postfix/submission/smtpd" THEN SCAN_OUT
    ELSE IF service = "postfix/lmtp" THEN SCAN_IN
    ELSE IF service = "postgrey" THEN SCAN_GREY
    ELSE IF service = "postfix/smtpd" THEN SCAN_BLOCKED
    ELSE SCAN_CONN

\* C27: the collection of a report that is switched off is empty after
\* every step; a line of such a report's service is still counted as
\* scanned, changes no collection, and, when inside the window, clears the
\* strike.
C27_SwitchedOffStaysEmpty ==
    [][ /\ ~SCAN_OUT => DOMAIN collector'.sent_mail = {}
        /\ ~SCAN_IN => DOMAIN collector'.received_mail = {}
        /\ ~SCAN_CONN => DOMAIN collector'.dovecot = {}
        /\ ~SCAN_GREY => DOMAIN collector'.postgrey = {}
        /\ ~SCAN_BLOCKED => DOMAIN collector'.rejected = {}
        /\ (Delivers /\ line'.m /\ line'.service \in ParsedServices
              /\ ~SwitchedOn(line'.service))
            => /\ collector'.scan_count = collector.scan_count + 1
               /\ Collections(collector') = Collections(collector)
               /\ Kind(line') = "window" => (stop_scan' = FALSE /\ ~Done')
      ]_vars

\* Only the sent-mail report is on; a before-window line was a strike, and
\* an in-window line of postfix/lmtp cleared it and left no trace but in
\* the counts.
C27_Witness ==
    /\ SCAN_OUT
    /\ ~SCAN_IN
    /\ pc = "lines"
    /\ prev = "before"
    /\ Kind(line) = "window"
    /\ line.service = "postfix/lmtp"
    /\ ~stop_scan
    /\ DOMAIN collector.received_mail = {}
    /\ alice \in DOMAIN collector.sent_mail
    /\ collector.scan_count = reads

\* The number of rejects stored for a recipient.
Rejects(c, user) == Len(Get(c.rejected, user, NewRejected).blocked)

\* C23: with a known-address set, every recipient in the reject collection
\* is in the set, and a rejection for a recipient outside it changes
\* nothing; a rejection for a recipient in the set, or for any recipient
\* when there is no set, is recorded if the recipient passes the filter.
C23_OnlyKnownRecipients ==
    [][ /\ ~collector'.known_addresses.none
            => DOMAIN collector'.rejected \subseteq collector'.known_addresses.set
        /\ (Delivers /\ RejectReported(line'))
            => LET u == line'.log.user
               IN  IF /\ collector.known_addresses.none
                         \/ u \in collector.known_addresses.set
                      /\ FILTERS.none \/ ContainsFilter(u)
                   THEN Rejects(collector', u) = Rejects(collector, u) + 1
                   ELSE collector'.rejected = collector.rejected
      ]_vars

\* alice is the only known address: a rejection for her is stored, and one
\* for bob has been met since and left nothing.
C23_Witness ==
    /\ collector.known_addresses = Known({alice})
    /\ FILTERS.none
    /\ RejectReported(line)
    /\ line.log.user = bob
    /\ DOMAIN collector.rejected = {alice}
    /\ reads = 2

\* A rejection for greylisting, met with the reject report on.
GreylistingReject(l) ==
    /\ SCAN_BLOCKED
    /\ Kind(l) = "window"
    /\ l.service = "postfix/smtpd"
    /\ l.log.form = "NOQUEUE"
    /\ \E i \in 1..Len(l.log.message) : l.log.message[i] = Greylisted

\* C24: a rejection whose reason is greylisting leaves the reject
\* collection as it is, for a recipient that has a record and for one that
\* has none, whatever the filter and the known addresses.
C24_GreylistingNotARejection ==
    [][ (Delivers /\ GreylistingReject(line'))
            => collector'.rejected = collector.rejected ]_vars

\* With no filter and no known-address set, a rejection for alice is
\* stored, and a greylisting rejection for her has been met since.
C24_Witness ==
    /\ collector.known_addresses.none
    /\ FILTERS.none
    /\ GreylistingReject(line)
    /\ line.log.user = alice
    /\ Rejects(collector, alice) = 1
    /\ collector.parse_count = 2

\* The records of a recipient, none if the recipient has no entry.
RecordsOf(c, user) == Get(c.postgrey, user, << >>)

\* C21: a greylist/new or pass event adds or rewrites the record of its own
\* recipient and (client name, or client address if the name is "unknown",
\* with the sender) and nothing else: a pass leaves the first greylist date
\* of the record as it was, a greylist/new leaves its pass date as it was,
\* and every other record of the recipient and every other recipient's
\* records stay as they were.
C21_OnlyOwnRecordTouched ==
    [][ (Delivers /\ SCAN_GREY /\ IsGreyEvent(line'))
            => LET user == line'.log.recipient
                   key  == <<IF line'.log.client_name = "unknown"
                             THEN line'.log.client_address
                             ELSE line'.log.client_name, line'.log.sender>>
                   old  == RecordsOf(collector, user)
                   new  == RecordsOf(collector', user)
               IN  /\ DOMAIN collector'.postgrey = DOMAIN collector.postgrey \cup {user}
                   /\ \A u \in DOMAIN collector.postgrey \ {user} :
                         collector'.postgrey[u] = collector.postgrey[u]
                   /\ DOMAIN new = DOMAIN old \cup {key}
                   /\ \A k \in DOMAIN old \ {key} : new[k] = old[k]
                   /\ (IsPass(line') /\ key \in DOMAIN old) => new[key][1] = old[key][1]
                   /\ (IsGreylistNew(line') /\ key \in DOMAIN old)
                        => new[key][2] = old[key][2]
      ]_vars

\* alice has a record with both dates for the sender's host and one under
\* the address of a host without a name; bob has a record of his own.
C21_Witness ==
    /\ DOMAIN collector.postgrey = {alice, bob}
    /\ DOMAIN collector.postgrey[alice] = {<<"mx.y", "s@y">>, <<"10.0.0.1", "s@y">>}
    /\ collector.postgrey[alice][<<"mx.y", "s@y">>][1] # None
    /\ collector.postgrey[alice][<<"mx.y", "s@y">>][2] # None
    /\ collector.postgrey[bob][<<"mx.y", "s@y">>] = <<None, Date(RunYear, 24)>>

\* C28: a greylist record that holds both dates has its first greylist
\* date not later than its pass date.
C28_GreylistedBeforePassed ==
    \A u \in DOMAIN collector.postgrey :
        \A k \in DOMAIN collector.postgrey[u] :
            LET record == collector.postgrey[u][k]
            IN  (record[1] # None /\ record[2] # None) => record[1] <= record[2]

====
